---- MODULE Spec2Model ----
(***************************************************************************)
(* Model of package option (redis/option/client.go): the Client settings   *)
(* struct and Client.ParseToRedisOptions, which builds a *redis.Options     *)
(* from a Client.                                                           *)
(*                                                                          *)
(* A Client is a record with one entry per struct field.  Strings are       *)
(* strings, ints and time.Duration values (nanoseconds) are integers,       *)
(* bools are booleans; func values, *tls.Config and the Limiter interface   *)
(* are references, written as strings, with "nil" the nil reference.        *)
(* A *redis.Options is an address in heap, the sequence of the Options      *)
(* values allocated so far.                                                 *)
(***************************************************************************)
EXTENDS Integers, Sequences, FiniteSets

VARIABLES clients, heap, returned, invoked

vars == <<clients, heap, returned, invoked>>

\* ------------------------------------------------------------------ bounds

\* Calls of ParseToRedisOptions in one behaviour (allocations on the heap).
MaxCalls == 3

\* Fields in which the second Client value may differ from the first.
MaxDiffFields == 1

\* ------------------------------------------------------- the Client struct

StringFields == {"Network", "Addr", "ClientName", "Username", "Password"}

FuncFields == {"Dialer", "OnConnect", "CredentialsProvider"}

IntFields ==
    {"Protocol", "DB", "MaxRetries", "PoolSize", "MinIdleConns", "MaxIdleConns",
     "MaxActiveConns"}

DurationFields ==
    {"MinRetryBackoff", "MaxRetryBackoff", "DialTimeout", "ReadTimeout",
     "WriteTimeout", "PoolTimeout", "ConnMaxIdleTime", "ConnMaxLifetime"}

BoolFields == {"ContextTimeoutEnabled", "PoolFIFO", "DisableIndentity"}

\* The exported fields of Client; they are also the fields of redis.Options
\* that ParseToRedisOptions sets.
PublicFields ==
    StringFields \cup FuncFields \cup IntFields \cup DurationFields
        \cup BoolFields \cup {"TLSConfig", "Limiter"}

\* Every field of Client: the exported ones and the unexported readOnly.
ClientFields == PublicFields \cup {"readOnly"}

\* The zero value of a field's type.
ZeroValue(f) ==
    IF f \in StringFields THEN ""
    ELSE IF f \in FuncFields \/ f \in {"TLSConfig", "Limiter"} THEN "nil"
    ELSE IF f \in IntFields \/ f \in DurationFields THEN 0
    ELSE FALSE

\* The values a field is given here: for a duration 0, the sentinels -1 and
\* -2, and one second; for a reference nil and two distinct objects.
FieldValues(f) ==
    IF f \in StringFields THEN {"", "a"}
    ELSE IF f \in FuncFields THEN {"nil", "fnA", "fnB"}
    ELSE IF f = "TLSConfig" THEN {"nil", "tlsA"}
    ELSE IF f = "Limiter" THEN {"nil", "limiterA", "limiterB"}
    ELSE IF f \in IntFields THEN {-1, 0, 1, 2}
    ELSE IF f \in DurationFields THEN {-2, -1, 0, 1000000000}
    ELSE BOOLEAN

\* Client{}: every field at its zero value.
ZeroClient == [f \in ClientFields |-> ZeroValue(f)]

\* Client{Addr: "localhost:6379", MaxRetries: 3, MinRetryBackoff: 8ms, PoolSize: 10}
ScenarioClient ==
    [ZeroClient EXCEPT !["Addr"] = "localhost:6379", !["MaxRetries"] = 3,
                       !["MinRetryBackoff"] = 8000000, !["PoolSize"] = 10]

\* A Client with a custom Dialer and with Network and Addr set as well.
DialerClient ==
    [ZeroClient EXCEPT !["Dialer"] = "fnA", !["Network"] = "unix",
                       !["Addr"] = "/tmp/redis.sock"]

\* A Client with every exported field set, the numeric ones pairwise apart
\* where the fields are neighbours, the retry and timeout ones at sentinels.
FullClient ==
    [Network |-> "tcp", Addr |-> "localhost:6379", ClientName |-> "app",
     Dialer |-> "fnA", OnConnect |-> "fnB", Protocol |-> 3,
     Username |-> "user", Password |-> "secret",
     CredentialsProvider |-> "fnA", DB |-> 1, MaxRetries |-> -1,
     MinRetryBackoff |-> -1, MaxRetryBackoff |-> 512000000,
     DialTimeout |-> 1000000000, ReadTimeout |-> -1, WriteTimeout |-> -2,
     ContextTimeoutEnabled |-> TRUE, PoolFIFO |-> TRUE, PoolSize |-> 10,
     PoolTimeout |-> 1000000000, MinIdleConns |-> 4, MaxIdleConns |-> 5,
     MaxActiveConns |-> 6, ConnMaxIdleTime |-> -1,
     ConnMaxLifetime |-> 1000000000, TLSConfig |-> "tlsA",
     Limiter |-> "limiterA", readOnly |-> FALSE, DisableIndentity |-> TRUE]

BaseClients == {ZeroClient, ScenarioClient, DialerClient, FullClient}

\* The Client values that differ from c in at most k fields.
RECURSIVE Variants(_, _)
Variants(c, k) ==
    IF k = 0 THEN {c}
    ELSE LET prev == Variants(c, k - 1)
         IN  prev \cup
             UNION {UNION {{[d EXCEPT ![f] = v] : v \in FieldValues(f)} :
                                f \in ClientFields} : d \in prev}

\* The callbacks a Client carries and the methods of its Limiter.
Callbacks == {"Dialer", "OnConnect", "CredentialsProvider", "Allow", "ReportResult"}

ClientIds == {1, 2}

\* ------------------------------------------------------ ParseToRedisOptions

\* The exported fields of c, each copied to the field of the same name.
CopyFields(c) == [f \in PublicFields |-> c[f]]

\* RedisOptions with DB taken from c.DB.
RedisOptionsOwnDB(c) ==
    [CopyFields(c) EXCEPT !["MaxIdleConns"] = c.MaxActiveConns]

\* RedisOptions with MaxIdleConns taken from c.MaxIdleConns.
RedisOptionsOwnMaxIdleConns(c) ==
    [CopyFields(c) EXCEPT !["DB"] = c.MaxIdleConns]

\* RedisOptions with the negative timeouts and backoffs replaced by 0.
RedisOptionsClamped(c) ==
    [f \in PublicFields |->
        IF f = "DB" THEN c.MaxIdleConns
        ELSE IF f = "MaxIdleConns" THEN c.MaxActiveConns
        ELSE IF f \in DurationFields /\ c[f] < 0 THEN 0
        ELSE c[f]]

\* RedisOptions with a non-nil Limiter wrapped in another object.
RedisOptionsWrappedLimiter(c) ==
    [CopyFields(c) EXCEPT !["DB"] = c.MaxIdleConns,
                          !["MaxIdleConns"] = c.MaxActiveConns,
                          !["Limiter"] = IF c.Limiter = "nil" THEN "nil"
                                         ELSE "limiterWrapper"]

\* RedisOptions with Network and Addr cleared when a Dialer is set.
RedisOptionsDialerFirst(c) ==
    [CopyFields(c) EXCEPT !["DB"] = c.MaxIdleConns,
                          !["MaxIdleConns"] = c.MaxActiveConns,
                          !["Network"] = IF c.Dialer = "nil" THEN c.Network ELSE "",
                          !["Addr"] = IF c.Dialer = "nil" THEN c.Addr ELSE ""]

\* The composite literal redis.Options{...} built from the receiver c.
RedisOptions(c) ==
    [Network               |-> c.Network,
     Addr                  |-> c.Addr,
     ClientName            |-> c.ClientName,
     Dialer                |-> c.Dialer,
     OnConnect             |-> c.OnConnect,
     Protocol              |-> c.Protocol,
     Username              |-> c.Username,
     Password              |-> c.Password,
     CredentialsProvider   |-> c.CredentialsProvider,
     DB                    |-> c.MaxIdleConns,
     MaxRetries            |-> c.MaxRetries,
     MinRetryBackoff       |-> c.MinRetryBackoff,
     MaxRetryBackoff       |-> c.MaxRetryBackoff,
     DialTimeout           |-> c.DialTimeout,
     ReadTimeout           |-> c.ReadTimeout,
     WriteTimeout          |-> c.WriteTimeout,
     ContextTimeoutEnabled |-> c.ContextTimeoutEnabled,
     PoolFIFO              |-> c.PoolFIFO,
     PoolSize              |-> c.PoolSize,
     PoolTimeout           |-> c.PoolTimeout,
     MinIdleConns          |-> c.MinIdleConns,
     MaxIdleConns          |-> c.MaxActiveConns,
     MaxActiveConns        |-> c.MaxActiveConns,
     ConnMaxIdleTime       |-> c.ConnMaxIdleTime,
     ConnMaxLifetime       |-> c.ConnMaxLifetime,
     TLSConfig             |-> c.TLSConfig,
     Limiter               |-> c.Limiter,
     DisableIndentity      |-> c.DisableIndentity]

\* ParseToRedisOptions with a call counter leaking into the result.
ParseToRedisOptionsCounting(i) ==
    /\ Len(heap) < MaxCalls
    /\ heap' = Append(heap, [RedisOptions(clients[i]) EXCEPT
                                !["MaxRetries"] = @ + Len(heap)])
    /\ returned' = Append(returned,
                          [client |-> i, arg |-> clients[i], ret |-> Len(heap) + 1])
    /\ UNCHANGED <<clients, invoked>>

\* ParseToRedisOptions filling and returning one shared redis.Options.
ParseToRedisOptionsShared(i) ==
    /\ Len(returned) < MaxCalls
    /\ heap' = <<RedisOptions(clients[i])>>
    /\ returned' = Append(returned,
                          [client |-> i, arg |-> clients[i], ret |-> 1])
    /\ UNCHANGED <<clients, invoked>>

\* clients[i].ParseToRedisOptions(): the receiver is passed by value, a new
\* redis.Options is allocated and its address returned; nothing is invoked.
ParseToRedisOptions(i) ==
    /\ Len(heap) < MaxCalls
    /\ heap' = Append(heap, RedisOptions(clients[i]))
    /\ returned' = Append(returned,
                          [client |-> i, arg |-> clients[i], ret |-> Len(heap) + 1])
    /\ UNCHANGED <<clients, invoked>>

\* ------------------------------------------------------------ specification

\* The caller holds two Client values: one of the base values and a value
\* that differs from it in at most MaxDiffFields fields.  Nothing has been
\* allocated, returned or invoked yet.
Init ==
    /\ \E b \in BaseClients :
         \E d \in Variants(b, MaxDiffFields) :
            clients = [i \in ClientIds |-> IF i = 1 THEN b ELSE d]
    /\ heap = <<>>
    /\ returned = <<>>
    /\ invoked = [cb \in Callbacks |-> 0]

Next == \E i \in ClientIds : ParseToRedisOptions(i)

Spec == Init /\ [][Next]_vars

\* ------------------------------------------------------------------ claims

\* The calls made so far, as indices into returned.
Calls == 1..Len(returned)

\* The Client value call k was made on.
Arg(k) == returned[k].arg

\* The redis.Options value behind the pointer call k returned.
Out(k) == heap[returned[k].ret]

\* C1: every exported field of the returned options equals the field of the
\* same name of the Client the call was made on.
C1_LikeNamedCopy ==
    \A k \in Calls : \A f \in PublicFields : Out(k)[f] = Arg(k)[f]

SentinelFields ==
    {"DialTimeout", "ReadTimeout", "WriteTimeout", "MinRetryBackoff",
     "MaxRetryBackoff", "MaxRetries"}

\* C3: the timeout, retry-backoff and retry-count fields of the returned
\* options hold exactly the Client's values, sentinels 0, -1 and -2 included,
\* whatever the other fields are.
C3_SentinelsSurvive ==
    \A k \in Calls : \A f \in SentinelFields : Out(k)[f] = Arg(k)[f]

\* Two calls on Clients with the other fields set, one with backoff -1 and
\* timeouts -1 and -2, one with backoff 0, each returned as given.
C3_Witness ==
    \E j, k \in Calls :
        /\ Arg(j).MinRetryBackoff = -1 /\ Out(j).MinRetryBackoff = -1
        /\ Arg(k).MinRetryBackoff = 0 /\ Out(k).MinRetryBackoff = 0
        /\ Arg(j).ReadTimeout = -1 /\ Out(j).ReadTimeout = -1
        /\ Arg(j).WriteTimeout = -2 /\ Out(j).WriteTimeout = -2
        /\ Arg(j).MaxRetries = -1 /\ Out(j).MaxRetries = -1
        /\ Arg(j).Addr # "" /\ Arg(j).PoolSize # 0

\* C4: a field the Client leaves at its zero value is at its zero value in
\* the returned options, whatever the other fields are.
C4_NoInjectedDefault ==
    \A k \in Calls : \A f \in PublicFields :
        Arg(k)[f] = ZeroValue(f) => Out(k)[f] = ZeroValue(f)

\* C5: two Clients that differ in an exported field yield different options.
C5_Injective ==
    \A j, k \in Calls :
        (\E f \in PublicFields : Arg(j)[f] # Arg(k)[f]) => Out(j) # Out(k)

\* C6: the returned Limiter is the Client's Limiter itself, nil when it is nil.
C6_LimiterByReference ==
    \A k \in Calls : Out(k).Limiter = Arg(k).Limiter

\* Calls on a Client with one limiter and on a Client with another one.
C6_Witness ==
    \E j, k \in Calls :
        /\ Arg(j).Limiter = "limiterA" /\ Out(j).Limiter = "limiterA"
        /\ Arg(k).Limiter = "limiterB" /\ Out(k).Limiter = "limiterB"

\* C7: with Dialer, Network and Addr all set, all three are returned as given.
C7_DialerKeepsNetworkAddr ==
    \A k \in Calls :
        (Arg(k).Dialer # "nil" /\ Arg(k).Network # "" /\ Arg(k).Addr # "")
            => /\ Out(k).Dialer = Arg(k).Dialer
               /\ Out(k).Network = Arg(k).Network
               /\ Out(k).Addr = Arg(k).Addr

\* A call on a Client with a Dialer, a Network and an Addr.
C7_Witness ==
    \E k \in Calls :
        /\ Arg(k).Dialer = "fnA" /\ Out(k).Dialer = "fnA"
        /\ Arg(k).Network = "unix" /\ Out(k).Network = "unix"
        /\ Arg(k).Addr = "/tmp/redis.sock" /\ Out(k).Addr = "/tmp/redis.sock"

\* C8: calls on equal Client values return equal options, however many calls
\* were made before and on whatever other values.
C8_Deterministic ==
    \A j, k \in Calls : Arg(j) = Arg(k) => Out(j) = Out(k)

\* A call on one Client, then one on a different Client, then one on the
\* first again.
C8_Witness ==
    /\ Len(returned) >= 3
    /\ Arg(1) = Arg(3)
    /\ Arg(2) # Arg(1)
    /\ Out(2) # Out(1)
    /\ returned[1].ret # returned[3].ret

\* C9: a call changes no Client, invokes no callback and no Limiter method,
\* and returns the address of a newly allocated options value, leaving the
\* options returned before as they were.
C9_NoSideEffects ==
    [][Len(returned') > Len(returned) =>
          /\ clients' = clients
          /\ invoked' = invoked
          /\ Len(returned') = Len(returned) + 1
          /\ Len(heap') = Len(heap) + 1
          /\ SubSeq(heap', 1, Len(heap)) = heap
          /\ SubSeq(returned', 1, Len(returned)) = returned
          /\ returned'[Len(returned')].ret = Len(heap')
          /\ \A k \in Calls : returned[k].ret # returned'[Len(returned')].ret]_vars

\* Two calls made on a Client that carries callbacks and a Limiter.
C9_Witness ==
    /\ Len(returned) >= 2
    /\ returned[1].client = returned[2].client
    /\ returned[1].ret # returned[2].ret
    /\ Arg(1).Dialer # "nil" /\ Arg(1).OnConnect # "nil"
    /\ Arg(1).CredentialsProvider # "nil" /\ Arg(1).Limiter # "nil"
    /\ clients[returned[1].client] = Arg(1)
    /\ \A cb \in Callbacks : invoked[cb] = 0

====
